---- MODULE Spec2Model ----
(***************************************************************************)
(* libusual: EINTR-safe I/O wrappers (usual/safeio.c) and socket setup     *)
(* helpers (usual/socket.c).                                               *)
(*                                                                         *)
(* Spec      one thread calling the safe_* wrappers                        *)
(* SpecConc  two threads calling wrappers concurrently                     *)
(* SpecSock  one thread calling socket_set_nonblocking / socket_setup      *)
(***************************************************************************)
EXTENDS Integers, Sequences, FiniteSets

VARIABLES
    cf_verbose,    \* process-wide verbosity level (usual/logging.h)
    buf,           \* sa2str: static char buf[256]
    active,        \* threads that run wrapper calls
    pc,            \* per thread: position inside the current wrapper call
    cur,           \* per thread: [fn, sa] of the current call
    res,           \* per thread: local  int res
    err,           \* per thread: errno
    ret,           \* per thread: value handed back to the caller
    msgerr_count,  \* per thread: safe_sendmsg's  int msgerr_count
    nsys,          \* per thread: invocations of the underlying syscall in this call
    neintr,        \* per thread: outcomes "failed with EINTR" in this call
    nmsgsize,      \* per thread: outcomes "failed with EMSGSIZE" in this call
    nsleep,        \* per thread: select() sleeps in this call
    last,          \* per thread: outcome of the latest syscall invocation
    out,           \* per thread: log calls made by the current wrapper call
    sflags,        \* descriptor: file status flags (F_GETFL / F_SETFL)
    fdflags,       \* descriptor: descriptor flags (F_SETFD)
    spc,           \* position inside the current socket helper call
    scall,         \* [fn, non_block] of the current socket helper call
    flags,         \* socket_set_nonblocking: local  int flags
    sret,          \* value returned by the socket helper
    steps,         \* syscalls attempted by the current socket helper call
    before,        \* descriptor state when the current socket helper call began
    hist,          \* completed socket helper calls
    sockopts,      \* descriptor: socket options set
    have_nosigpipe \* the platform defines SO_NOSIGPIPE

wvars == <<cf_verbose, buf, active, pc, cur, res, err, ret, msgerr_count,
           nsys, neintr, nmsgsize, nsleep, last, out>>
svars == <<sflags, fdflags, spc, scall, flags, sret, steps, before, hist,
           sockopts, have_nosigpipe>>
vars == <<wvars, svars>>

----
\* Bounds of the model

\* most EINTR outcomes the environment produces within one wrapper call
MaxEintr == 2
\* largest success value of a syscall (bytes transferred, new descriptor)
MaxRes == 1
\* highest verbosity level tried
MaxVerbose == 3
\* socket helper calls recorded per behaviour
MaxHist == 2

----
\* Program constants

\* safeio.c:134   msgerr_count < 20
MsgErrLimit == 20
\* safeio.c:148   static char buf[256]
BufSize == 256
\* safeio.c:66    cf_verbose > 2
NoiseLevel == 2

Threads == {1, 2}

Errnos == {"EINTR", "EMSGSIZE", "EINPROGRESS", "EBADF"}
NoErrno == "0"

Results == -1 .. MaxRes

Wrappers == {"safe_read", "safe_write", "safe_recv", "safe_send", "safe_close",
             "safe_recvmsg", "safe_sendmsg", "safe_connect", "safe_accept"}

\* wrappers exercised when two threads run
ConcWrappers == {"safe_connect", "safe_accept"}

----
\* Socket addresses and their rendering (safeio.c:146-160)

\* text is a sequence of one-character strings
Chars(n) == <<"0", "1", "2", "3", "4", "5", "6", "7", "8", "9">>[n + 1]

RECURSIVE Dec(_)
\* printf's %d of a non-negative number
Dec(n) == IF n < 10 THEN <<Chars(n)>> ELSE Dec(n \div 10) \o <<Chars(n % 10)>>

\* struct sockaddr as the caller passes it: sin_addr and sin_port are kept as
\* their bytes in network order, sun_path as its characters
Addrs ==
    { [sa_family |-> "AF_INET", sin_addr |-> <<192, 0, 2, 1>>, sin_port |-> <<1, 187>>,
       sun_path |-> <<>>],
      [sa_family |-> "AF_INET", sin_addr |-> <<10, 0, 0, 7>>, sin_port |-> <<0, 80>>,
       sun_path |-> <<>>],
      [sa_family |-> "AF_UNIX", sin_addr |-> <<0, 0, 0, 0>>, sin_port |-> <<0, 0>>,
       sun_path |-> <<"/", "t", "m", "p", "/", "s", "o", "c", "k">>],
      [sa_family |-> "AF_UNIX", sin_addr |-> <<0, 0, 0, 0>>, sin_port |-> <<0, 0>>,
       sun_path |-> <<"/", "a">>],
      [sa_family |-> "AF_INET6", sin_addr |-> <<0, 0, 0, 0>>, sin_port |-> <<0, 0>>,
       sun_path |-> <<>>] }

\* the wrappers that take no address
NoAddr == [sa_family |-> "AF_UNSPEC", sin_addr |-> <<0, 0, 0, 0>>, sin_port |-> <<0, 0>>,
           sun_path |-> <<>>]

\* inet_ntoa(in->sin_addr): dotted decimal of the four address bytes
inet_ntoa(a) ==
    Dec(a[1]) \o <<".">> \o Dec(a[2]) \o <<".">> \o Dec(a[3]) \o <<".">> \o Dec(a[4])

\* ntohs(in->sin_port): the 16-bit value of two bytes in network order
ntohs(p) == p[1] * 256 + p[2]

\* snprintf(buf, sizeof(buf), ...): at most sizeof(buf) - 1 characters are stored
snprintf(s) == IF Len(s) >= BufSize THEN SubSeq(s, 1, BufSize - 1) ELSE s

\* "%s:%d", inet_ntoa(in->sin_addr), ntohs(in->sin_port)
FmtInet(sa) == inet_ntoa(sa.sin_addr) \o <<":">> \o Dec(ntohs(sa.sin_port))

\* "unix:%s", un->sun_path
FmtUnix(sa) == <<"u", "n", "i", "x", ":">> \o sa.sun_path

\* "sa2str: unknown proto"
FmtUnknown == <<"s", "a", "2", "s", "t", "r", ":", " ", "u", "n", "k", "n", "o", "w", "n",
                " ", "p", "r", "o", "t", "o">>

\* sa2str, first statement:  if (sa->sa_family == AF_INET) { snprintf(...) }
\* b is the buffer's content before the statement, the result its content after
sa2str_inet(sa, b) == IF sa.sa_family = "AF_INET" THEN snprintf(FmtInet(sa)) ELSE b

\* sa2str, second statement:  if (sa->sa_family == AF_UNIX) {...} else {...}
\* (the source has "} if", not "} else if": this statement runs for every family)
sa2str_unix(sa, b) ==
    IF sa.sa_family = "AF_UNIX" THEN snprintf(FmtUnix(sa)) ELSE snprintf(FmtUnknown)

\* the text sa2str returns when nothing else touches buf during the call
sa2str(sa, b) == sa2str_unix(sa, sa2str_inet(sa, b))

----
\* The log stream: one record per call of log_noise / log_warning

Line(level, fn, kind, e, r, addr) ==
    [level |-> level, fn |-> fn, kind |-> kind, err |-> e, res |-> r, addr |-> addr]

NoText == <<>>

\* errno as the logging collaborator (usual/logging.c) leaves it
errno_after_log(e) == e

\* errno after a syscall that returned r and, when it failed, reported e
errno_after(t, r, e) == IF r < 0 THEN e ELSE err[t]

\* mutant: the interruption is not recognised
IsEINTR_never(r, e) == FALSE

\* res < 0 && errno == EINTR
IsEINTR(r, e) == r < 0 /\ e = "EINTR"

\* the syscall's outcome was "failed with reason x"
Failed(r, e, x) == r < 0 /\ e = x

\* the environment interrupts a call at most MaxEintr times
EintrBound(t, r, e) == Failed(r, e, "EINTR") => neintr[t] < MaxEintr

\* one pass through a wrapper's loop: the syscall was invoked once and returned
\* r with errno e; the wrapper goes on at newpc
Step(t, r, e, enow, newpc, retv, lines, cnt, slp, c) ==
    /\ pc' = [pc EXCEPT ![t] = newpc]
    /\ res' = [res EXCEPT ![t] = r]
    /\ err' = [err EXCEPT ![t] = enow]
    /\ ret' = [ret EXCEPT ![t] = retv]
    /\ out' = [out EXCEPT ![t] = @ \o lines]
    /\ msgerr_count' = [msgerr_count EXCEPT ![t] = cnt]
    /\ nsleep' = [nsleep EXCEPT ![t] = slp]
    /\ nsys' = [nsys EXCEPT ![t] = @ + 1]
    /\ neintr' = [neintr EXCEPT ![t] = IF Failed(r, e, "EINTR") THEN @ + 1 ELSE @]
    /\ nmsgsize' = [nmsgsize EXCEPT ![t] = IF Failed(r, e, "EMSGSIZE") THEN @ + 1 ELSE @]
    /\ last' = [last EXCEPT ![t] = [res |-> r, err |-> e]]
    /\ cur' = [cur EXCEPT ![t] = c]
    /\ UNCHANGED <<cf_verbose, buf, active, svars>>

\* mutant: the wrapper also sleeps before the retry after an interruption
Retry_sleep(t, r, e) ==
    Step(t, r, e, e, "loop", ret[t], <<>>, msgerr_count[t], nsleep[t] + 1, cur[t])

\* mutant: the retry after an interruption starts the EMSGSIZE count afresh
Retry_reset(t, r, e) ==
    Step(t, r, e, e, "loop", ret[t], <<>>, 0, nsleep[t], cur[t])

\* goto loop
Retry(t, r, e) ==
    Step(t, r, e, e, "loop", ret[t], <<>>, msgerr_count[t], nsleep[t], cur[t])

\* mutant: a failure is reported to the caller as 0
Return_swallow(t, r, e, lines) ==
    Step(t, r, e, IF lines = <<>> THEN e ELSE errno_after_log(e), "done",
         IF r < 0 THEN 0 ELSE r, lines, msgerr_count[t], nsleep[t], cur[t])

\* the log calls in lines, then  return res
Return(t, r, e, lines) ==
    Step(t, r, e, IF lines = <<>> THEN e ELSE errno_after_log(e), "done", r, lines,
         msgerr_count[t], nsleep[t], cur[t])

\* the caller enters wrapper w; when two threads run, each makes one call
Call(t, w, sa) ==
    /\ t \in active
    /\ pc[t] \in (IF active = Threads THEN {"idle"} ELSE {"idle", "done"})
    /\ w \in (IF active = Threads THEN ConcWrappers ELSE Wrappers)
    /\ sa = IF w = "safe_connect" THEN sa ELSE NoAddr
    /\ pc' = [pc EXCEPT ![t] = "loop"]
    /\ cur' = [cur EXCEPT ![t] = [fn |-> w, sa |-> sa]]
    /\ msgerr_count' = [msgerr_count EXCEPT ![t] = 0]
    /\ nsys' = [nsys EXCEPT ![t] = 0]
    /\ neintr' = [neintr EXCEPT ![t] = 0]
    /\ nmsgsize' = [nmsgsize EXCEPT ![t] = 0]
    /\ nsleep' = [nsleep EXCEPT ![t] = 0]
    /\ out' = [out EXCEPT ![t] = <<>>]
    /\ last' = [last EXCEPT ![t] = [res |-> 0, err |-> NoErrno]]
    /\ res' = [res EXCEPT ![t] = 0]
    /\ ret' = [ret EXCEPT ![t] = 0]
    /\ UNCHANGED <<cf_verbose, buf, active, err, svars>>

AtLoop(t, w) == t \in active /\ pc[t] = "loop" /\ cur[t].fn = w

----
\* safe_read, safe_write, safe_close: no logging

safe_read(t) ==
    /\ AtLoop(t, "safe_read")
    /\ \E r \in Results, e \in Errnos :
        /\ EintrBound(t, r, e)
        /\ LET en == errno_after(t, r, e) IN
           IF IsEINTR(r, en) THEN Retry(t, r, en) ELSE Return(t, r, en, <<>>)

safe_write(t) ==
    /\ AtLoop(t, "safe_write")
    /\ \E r \in Results, e \in Errnos :
        /\ EintrBound(t, r, e)
        /\ LET en == errno_after(t, r, e) IN
           IF IsEINTR(r, en) THEN Retry(t, r, en) ELSE Return(t, r, en, <<>>)

safe_close(t) ==
    /\ AtLoop(t, "safe_close")
    /\ \E r \in Results, e \in Errnos :
        /\ EintrBound(t, r, e)
        /\ LET en == errno_after(t, r, e) IN
           IF IsEINTR(r, en) THEN Retry(t, r, en) ELSE Return(t, r, en, <<>>)

----
\* safe_recv, safe_send, safe_recvmsg: log, then return

\* mutant: the failure line is only logged above the verbosity threshold
safe_recv_log_gated(r, e) ==
    IF cf_verbose > NoiseLevel
    THEN <<Line("noise", "safe_recv", IF r < 0 THEN "fail" ELSE "ok",
                IF r < 0 THEN e ELSE NoErrno, r, NoText)>>
    ELSE <<>>

\* safeio.c:64-67
safe_recv_log(r, e) ==
    IF r < 0 THEN <<Line("noise", "safe_recv", "fail", e, r, NoText)>>
    ELSE IF cf_verbose > NoiseLevel
         THEN <<Line("noise", "safe_recv", "ok", NoErrno, r, NoText)>>
         ELSE <<>>

safe_recv(t) ==
    /\ AtLoop(t, "safe_recv")
    /\ \E r \in Results, e \in Errnos :
        /\ EintrBound(t, r, e)
        /\ LET en == errno_after(t, r, e) IN
           IF IsEINTR(r, en) THEN Retry(t, r, en)
           ELSE Return(t, r, en, safe_recv_log(r, en))

\* mutant: the success line is logged at every verbosity
safe_send_log_always(r, e) ==
    IF r < 0 THEN <<Line("noise", "safe_send", "fail", e, r, NoText)>>
    ELSE <<Line("noise", "safe_send", "ok", NoErrno, r, NoText)>>

\* safeio.c:78-81
safe_send_log(r, e) ==
    IF r < 0 THEN <<Line("noise", "safe_send", "fail", e, r, NoText)>>
    ELSE IF cf_verbose > NoiseLevel
         THEN <<Line("noise", "safe_send", "ok", NoErrno, r, NoText)>>
         ELSE <<>>

safe_send(t) ==
    /\ AtLoop(t, "safe_send")
    /\ \E r \in Results, e \in Errnos :
        /\ EintrBound(t, r, e)
        /\ LET en == errno_after(t, r, e) IN
           IF IsEINTR(r, en) THEN Retry(t, r, en)
           ELSE Return(t, r, en, safe_send_log(r, en))

\* mutant: the failure line is gated like the success line
safe_recvmsg_log_gated(r, e) ==
    IF cf_verbose > NoiseLevel
    THEN <<Line(IF r < 0 THEN "warning" ELSE "noise", "safe_recvmsg",
                IF r < 0 THEN "fail" ELSE "ok", IF r < 0 THEN e ELSE NoErrno, r, NoText)>>
    ELSE <<>>

\* safeio.c:110-113
safe_recvmsg_log(r, e) ==
    IF r < 0 THEN <<Line("warning", "safe_recvmsg", "fail", e, r, NoText)>>
    ELSE IF cf_verbose > NoiseLevel
         THEN <<Line("noise", "safe_recvmsg", "ok", NoErrno, r, NoText)>>
         ELSE <<>>

safe_recvmsg(t) ==
    /\ AtLoop(t, "safe_recvmsg")
    /\ \E r \in Results, e \in Errnos :
        /\ EintrBound(t, r, e)
        /\ LET en == errno_after(t, r, e) IN
           IF IsEINTR(r, en) THEN Retry(t, r, en)
           ELSE Return(t, r, en, safe_recvmsg_log(r, en))

----
\* safe_sendmsg: the EMSGSIZE workaround

\* mutant: the retries are not counted against a budget
MsgsizeRetry_forever(e, cnt) == e = "EMSGSIZE"

\* mutant: off by one in the retry budget
MsgsizeRetry_le(e, cnt) == e = "EMSGSIZE" /\ cnt <= MsgErrLimit

\* errno == EMSGSIZE && msgerr_count < 20
MsgsizeRetry(e, cnt) == e = "EMSGSIZE" /\ cnt < MsgErrLimit

\* safeio.c:127-130
safe_sendmsg_fail(r, e) == Line("warning", "safe_sendmsg", "fail", e, r, NoText)

\* safeio.c:136
safe_sendmsg_sleep(r) == Line("warning", "safe_sendmsg", "sleep", NoErrno, r, NoText)

\* safeio.c:141-142
safe_sendmsg_ok(r) ==
    IF cf_verbose > NoiseLevel
    THEN <<Line("noise", "safe_sendmsg", "ok", NoErrno, r, NoText)>>
    ELSE <<>>

\* log_warning("trying to sleep a bit"); select(...); msgerr_count++; goto loop
\* select() may itself be interrupted and leave EINTR in errno
SleepRetry(t, r, e) ==
    \E es \in {errno_after_log(e), "EINTR"} :
        Step(t, r, e, es, "loop", ret[t],
             <<safe_sendmsg_fail(r, e), safe_sendmsg_sleep(r)>>,
             msgerr_count[t] + 1, nsleep[t] + 1, cur[t])

safe_sendmsg(t) ==
    /\ AtLoop(t, "safe_sendmsg")
    /\ \E r \in Results, e \in Errnos :
        /\ EintrBound(t, r, e)
        /\ LET en == errno_after(t, r, e) IN
           IF IsEINTR(r, en) THEN Retry(t, r, en)
           ELSE IF r < 0
                THEN IF MsgsizeRetry(errno_after_log(en), msgerr_count[t])
                     THEN SleepRetry(t, r, en)
                     ELSE Return(t, r, en, <<safe_sendmsg_fail(r, en)>>)
                ELSE Return(t, r, en, safe_sendmsg_ok(r))

----
\* safe_connect, safe_accept: log lines that render an address

\* mutant: EINPROGRESS is logged like any other failure
ConnectLogsFailure_all(r, e) == r < 0

\* res < 0 && (errno != EINPROGRESS || cf_verbose > 2)
ConnectLogsFailure(r, e) == r < 0 /\ (e # "EINPROGRESS" \/ cf_verbose > NoiseLevel)

\* the log call is still to come: its arguments are evaluated first (sa2str)
ToLog(t, r, e, c) ==
    Step(t, r, e, e, "sa2str_1", ret[t], <<>>, msgerr_count[t], nsleep[t], c)

safe_connect(t) ==
    /\ AtLoop(t, "safe_connect")
    /\ \E r \in Results, e \in Errnos :
        /\ EintrBound(t, r, e)
        /\ LET en == errno_after(t, r, e) IN
           IF IsEINTR(r, en) THEN Retry(t, r, en)
           ELSE IF ConnectLogsFailure(r, en) THEN ToLog(t, r, en, cur[t])
           ELSE IF cf_verbose > NoiseLevel THEN ToLog(t, r, en, cur[t])
           ELSE Return(t, r, en, <<>>)

\* safeio.c:183-184
safe_accept_fail(r, e) == <<Line("noise", "safe_accept", "fail", e, r, NoText)>>

\* on success accept() has written the peer's address a to the caller's buffer
safe_accept(t) ==
    /\ AtLoop(t, "safe_accept")
    /\ \E r \in Results, e \in Errnos, a \in Addrs :
        /\ EintrBound(t, r, e)
        /\ LET en == errno_after(t, r, e)
               c == [cur[t] EXCEPT !.sa = a]
           IN IF IsEINTR(r, en) THEN Retry(t, r, en)
              ELSE IF r < 0 THEN Return(t, r, en, safe_accept_fail(r, en))
              ELSE IF cf_verbose > NoiseLevel THEN ToLog(t, r, en, c)
              ELSE Step(t, r, en, en, "done", r, <<>>, msgerr_count[t], nsleep[t], c)

\* sa2str, safeio.c:150-153: the AF_INET statement, writing the static buffer.
\* The buffer is shared by all threads and written without synchronisation: the
\* steps of sa2str and the later read by the logger interleave freely with
\* those of another thread.
sa2str_1(t) ==
    /\ t \in active /\ pc[t] = "sa2str_1"
    /\ buf' = sa2str_inet(cur[t].sa, buf)
    /\ pc' = [pc EXCEPT ![t] = "sa2str_2"]
    /\ UNCHANGED <<cf_verbose, active, cur, res, err, ret, msgerr_count, nsys, neintr,
                   nmsgsize, nsleep, last, out, svars>>

\* sa2str, safeio.c:153-159: the AF_UNIX / else statement, writing the static
\* buffer, and  return buf
sa2str_2(t) ==
    /\ t \in active /\ pc[t] = "sa2str_2"
    /\ buf' = sa2str_unix(cur[t].sa, buf)
    /\ pc' = [pc EXCEPT ![t] = "log"]
    /\ UNCHANGED <<cf_verbose, active, cur, res, err, ret, msgerr_count, nsys, neintr,
                   nmsgsize, nsleep, last, out, svars>>

\* the line of safe_connect (safeio.c:170, 172) or safe_accept (safeio.c:186):
\* the text is read from the static buffer when the line is formatted
AddrLine(fn, r, e, text) ==
    IF r < 0 THEN Line("noise", fn, "fail", e, r, text)
    ELSE Line("noise", fn, "ok", NoErrno, r, text)

\* log_noise(..., sa2str(sa), ...) after sa2str has returned, then  return res
log_addr(t) ==
    /\ t \in active /\ pc[t] = "log"
    /\ out' = [out EXCEPT ![t] = @ \o <<AddrLine(cur[t].fn, res[t], err[t], buf)>>]
    /\ err' = [err EXCEPT ![t] = errno_after_log(@)]
    /\ ret' = [ret EXCEPT ![t] = res[t]]
    /\ pc' = [pc EXCEPT ![t] = "done"]
    /\ UNCHANGED <<cf_verbose, buf, active, cur, res, msgerr_count, nsys, neintr,
                   nmsgsize, nsleep, last, svars>>

----
\* Socket helpers (socket.c)

\* flag words are modelled as the set of the flags that are set
StatusFlags == {"O_NONBLOCK", "O_APPEND", "O_RDWR"}

\* mutant: the bit is toggled whatever non_block is (flags ^= O_NONBLOCK)
FlipNonblock_toggle(f, non_block) ==
    IF "O_NONBLOCK" \in f THEN f \ {"O_NONBLOCK"} ELSE f \cup {"O_NONBLOCK"}

\* mutant: the complement is missing when clearing (flags &= O_NONBLOCK)
FlipNonblock_mask(f, non_block) ==
    IF non_block THEN f \cup {"O_NONBLOCK"} ELSE f \cap {"O_NONBLOCK"}

\* mutant: the flag word is assigned, not or-ed / and-ed
FlipNonblock_assign(f, non_block) == IF non_block THEN {"O_NONBLOCK"} ELSE {}

\* if (non_block) flags |= O_NONBLOCK; else flags &= ~O_NONBLOCK;
FlipNonblock(f, non_block) ==
    IF non_block THEN f \cup {"O_NONBLOCK"} ELSE f \ {"O_NONBLOCK"}

\* mutant: the descriptor flags are cleared (F_SETFD with 0)
SetFd_zero(f) == {}

\* fcntl(sock, F_SETFD, FD_CLOEXEC): the descriptor flags become exactly FD_CLOEXEC
SetFd(f) == {"FD_CLOEXEC"}

Snapshot(sf, ff) == [sflags |-> sf, fdflags |-> ff]

\* return retv, after the syscalls in st, leaving the descriptor with sf / ff
SockReturn(retv, st, sf, ff) ==
    /\ spc' = "done"
    /\ sret' = retv
    /\ steps' = st
    /\ hist' = Append(hist, [fn |-> scall.fn, non_block |-> scall.non_block,
                             ret |-> retv, steps |-> st, before |-> before,
                             after |-> Snapshot(sf, ff)])

\* the caller enters socket_set_nonblocking(fd, nb) or socket_setup(fd, nb)
SockCall(fn, nb) ==
    /\ spc \in {"idle", "done"}
    /\ Len(hist) < MaxHist
    /\ scall' = [fn |-> fn, non_block |-> nb]
    /\ spc' = IF fn = "socket_setup" THEN "setfd" ELSE "getfl"
    /\ steps' = <<>>
    /\ before' = Snapshot(sflags, fdflags)
    /\ flags' = {}
    /\ sret' = FALSE
    /\ UNCHANGED <<sflags, fdflags, hist, sockopts, have_nosigpipe, wvars>>

\* mutant: the result of F_SETFD is not checked
AfterSetFd_unchecked(ok) == IF have_nosigpipe THEN "sockopt" ELSE "getfl"

\* where socket_setup goes on after F_SETFD returned:  if (res < 0) return false
AfterSetFd(ok) ==
    IF ~ok THEN "done" ELSE IF have_nosigpipe THEN "sockopt" ELSE "getfl"

\* socket_setup, socket.c:65-67
socket_setup_cloexec(ok) ==
    /\ spc = "setfd"
    /\ LET st == Append(steps, [op |-> "F_SETFD", ok |-> ok])
           ff == IF ok THEN SetFd(fdflags) ELSE fdflags
       IN /\ fdflags' = ff
          /\ IF AfterSetFd(ok) = "done"
             THEN SockReturn(FALSE, st, sflags, ff)
             ELSE spc' = AfterSetFd(ok) /\ steps' = st /\ UNCHANGED <<sret, hist>>
    /\ UNCHANGED <<sflags, scall, flags, before, sockopts, have_nosigpipe, wvars>>

\* socket_setup, socket.c:69-75: compiled only where SO_NOSIGPIPE is defined
\* (the block assigns a variable val that socket_setup does not declare; it is
\* modelled as written, with val an int)
socket_setup_nosigpipe(ok) ==
    /\ spc = "sockopt"
    /\ LET st == Append(steps, [op |-> "SO_NOSIGPIPE", ok |-> ok])
       IN /\ sockopts' = IF ok THEN sockopts \cup {"SO_NOSIGPIPE"} ELSE sockopts
          /\ IF ok
             THEN spc' = "getfl" /\ steps' = st /\ UNCHANGED <<sret, hist>>
             ELSE SockReturn(FALSE, st, sflags, fdflags)
    /\ UNCHANGED <<sflags, fdflags, scall, flags, before, have_nosigpipe, wvars>>

\* mutant: the result of F_GETFL is not checked
AfterGetFl_unchecked(ok) == "setfl"

\* where socket_set_nonblocking goes on after F_GETFL:  if (flags < 0) return false
AfterGetFl(ok) == IF ok THEN "setfl" ELSE "done"

\* socket_set_nonblocking, socket.c:43-51: read the flags, flip O_NONBLOCK
socket_set_nonblocking_get(ok) ==
    /\ spc = "getfl"
    /\ LET st == Append(steps, [op |-> "F_GETFL", ok |-> ok])
       IN IF AfterGetFl(ok) = "done"
          THEN SockReturn(FALSE, st, sflags, fdflags) /\ UNCHANGED flags
          ELSE /\ flags' = FlipNonblock(sflags, scall.non_block)
               /\ spc' = AfterGetFl(ok) /\ steps' = st /\ UNCHANGED <<sret, hist>>
    /\ UNCHANGED <<sflags, fdflags, scall, before, sockopts, have_nosigpipe, wvars>>

\* socket_set_nonblocking, socket.c:54-56: write the flags; socket_setup returns
\* what socket_set_nonblocking returned (socket.c:78-81)
socket_set_nonblocking_set(ok) ==
    /\ spc = "setfl"
    /\ LET st == Append(steps, [op |-> "F_SETFL", ok |-> ok])
           sf == IF ok THEN flags ELSE sflags
       IN /\ sflags' = sf
          /\ SockReturn(ok, st, sf, fdflags)
    /\ UNCHANGED <<fdflags, scall, flags, before, sockopts, have_nosigpipe, wvars>>

----
\* Specifications

InitWrappers ==
    /\ buf = <<>>
    /\ pc = [t \in Threads |-> "idle"]
    /\ cur = [t \in Threads |-> [fn |-> "none", sa |-> NoAddr]]
    /\ res = [t \in Threads |-> 0]
    /\ err = [t \in Threads |-> NoErrno]
    /\ ret = [t \in Threads |-> 0]
    /\ msgerr_count = [t \in Threads |-> 0]
    /\ nsys = [t \in Threads |-> 0]
    /\ neintr = [t \in Threads |-> 0]
    /\ nmsgsize = [t \in Threads |-> 0]
    /\ nsleep = [t \in Threads |-> 0]
    /\ last = [t \in Threads |-> [res |-> 0, err |-> NoErrno]]
    /\ out = [t \in Threads |-> <<>>]

InitSock ==
    /\ spc = "idle"
    /\ scall = [fn |-> "none", non_block |-> FALSE]
    /\ flags = {}
    /\ sret = FALSE
    /\ steps = <<>>
    /\ before = Snapshot(sflags, fdflags)
    /\ hist = <<>>
    /\ sockopts = {}

\* one thread calls the wrappers; the descriptor's flags play no part
Init ==
    /\ cf_verbose \in 0 .. MaxVerbose
    /\ active = {1}
    /\ InitWrappers
    /\ sflags = {"O_RDWR"} /\ fdflags = {} /\ have_nosigpipe = FALSE
    /\ InitSock

\* two threads call the wrappers
InitConc ==
    /\ cf_verbose \in 0 .. MaxVerbose
    /\ active = Threads
    /\ InitWrappers
    /\ sflags = {"O_RDWR"} /\ fdflags = {} /\ have_nosigpipe = FALSE
    /\ InitSock

\* one thread calls the socket helpers on a descriptor in any flag state
InitSetup ==
    /\ cf_verbose = 0
    /\ active = {}
    /\ InitWrappers
    /\ sflags \in SUBSET StatusFlags
    /\ fdflags \in SUBSET {"FD_CLOEXEC"}
    /\ have_nosigpipe \in BOOLEAN
    /\ InitSock

Next ==
    \E t \in Threads :
        \/ \E w \in Wrappers, sa \in Addrs \cup {NoAddr} : Call(t, w, sa)
        \/ safe_read(t)
        \/ safe_write(t)
        \/ safe_recv(t)
        \/ safe_send(t)
        \/ safe_close(t)
        \/ safe_recvmsg(t)
        \/ safe_sendmsg(t)
        \/ safe_connect(t)
        \/ safe_accept(t)
        \/ sa2str_1(t)
        \/ sa2str_2(t)
        \/ log_addr(t)

NextConc ==
    \E t \in Threads :
        \/ \E w \in ConcWrappers, sa \in Addrs \cup {NoAddr} : Call(t, w, sa)
        \/ safe_connect(t)
        \/ safe_accept(t)
        \/ sa2str_1(t)
        \/ sa2str_2(t)
        \/ log_addr(t)

NextSock ==
    \/ \E fn \in {"socket_set_nonblocking", "socket_setup"}, nb \in BOOLEAN :
           SockCall(fn, nb)
    \/ \E ok \in BOOLEAN : socket_setup_cloexec(ok)
    \/ \E ok \in BOOLEAN : socket_setup_nosigpipe(ok)
    \/ \E ok \in BOOLEAN : socket_set_nonblocking_get(ok)
    \/ \E ok \in BOOLEAN : socket_set_nonblocking_set(ok)

Spec == Init /\ [][Next]_vars

\* the steps of thread t inside a wrapper call
Run(t) ==
    \/ safe_read(t) \/ safe_write(t) \/ safe_recv(t) \/ safe_send(t) \/ safe_close(t)
    \/ safe_recvmsg(t) \/ safe_sendmsg(t) \/ safe_connect(t) \/ safe_accept(t)
    \/ sa2str_1(t) \/ sa2str_2(t) \/ log_addr(t)

\* a thread inside a wrapper call keeps running and every syscall it invokes
\* comes back (interrupted at most MaxEintr times per call)
SpecLive == Spec /\ \A t \in Threads : WF_vars(Run(t))

SpecConc == InitConc /\ [][NextConc]_vars

SpecSock == InitSetup /\ [][NextSock]_vars

----
\* Properties of the wrappers

Returned(t) == t \in active /\ pc[t] = "done"

InCall(t) == t \in active /\ pc[t] # "idle"

\* C1: in every wrapper each outcome "failed with EINTR" is followed by exactly
\* one more invocation of the syscall (the invocations of a call are one per
\* EINTR outcome, one per EMSGSIZE retry, and the one whose result is kept), a
\* call whose latest outcome is EINTR is about to invoke the syscall again, and
\* no call returns a failure whose reason is EINTR.
C1_EintrRetried ==
    \A t \in Threads :
        /\ (InCall(t) /\ pc[t] = "loop")
               => nsys[t] = neintr[t] + msgerr_count[t]
        /\ (InCall(t) /\ pc[t] # "loop")
               => /\ nsys[t] = neintr[t] + msgerr_count[t] + 1
                  /\ ~Failed(last[t].res, last[t].err, "EINTR")
        /\ (InCall(t) /\ Failed(last[t].res, last[t].err, "EINTR")) => pc[t] = "loop"
        /\ Returned(t) => ~(ret[t] < 0 /\ err[t] = "EINTR")

\* a call that was interrupted MaxEintr times has returned the result of the
\* invocation after the last interruption
C1_Witness ==
    \E t \in Threads :
        /\ Returned(t) /\ cur[t].fn = "safe_accept"
        /\ neintr[t] = MaxEintr /\ nsys[t] = MaxEintr + 1 /\ ret[t] < 0

\* C2: in one call of safe_sendmsg the 1st to 20th EMSGSIZE failure each lead to
\* another sendmsg attempt, the 21st is returned to the caller as a failure, and
\* a success on any attempt is returned at once, with no further invocation.
C2_MsgsizeBudget ==
    \A t \in Threads :
        (InCall(t) /\ cur[t].fn = "safe_sendmsg") =>
            /\ pc[t] = "loop" =>
                   /\ nmsgsize[t] <= MsgErrLimit
                   /\ nsys[t] = neintr[t] + nmsgsize[t]
            /\ (nsys[t] > 0 /\ Failed(last[t].res, last[t].err, "EMSGSIZE")) =>
                   IF nmsgsize[t] <= MsgErrLimit
                   THEN pc[t] = "loop"
                   ELSE /\ nmsgsize[t] = MsgErrLimit + 1
                        /\ pc[t] = "done" /\ ret[t] < 0 /\ err[t] = "EMSGSIZE"
            /\ (nsys[t] > 0 /\ last[t].res >= 0) =>
                   /\ pc[t] = "done" /\ ret[t] = last[t].res
                   /\ nmsgsize[t] <= MsgErrLimit
                   /\ nsys[t] = neintr[t] + nmsgsize[t] + 1

\* safe_sendmsg has returned the 21st EMSGSIZE failure
C2_Witness ==
    \E t \in Threads :
        /\ Returned(t) /\ cur[t].fn = "safe_sendmsg"
        /\ nmsgsize[t] = MsgErrLimit + 1 /\ ret[t] < 0

\* C3: when the latest invocation of the syscall failed and the wrapper has
\* returned (the reason was not EINTR and, for safe_sendmsg, not an EMSGSIZE
\* within the retry budget), the caller gets that invocation's return value and
\* finds that invocation's reason in errno, also after the wrapper has logged.
C3_FailureUnchanged ==
    \A t \in Threads :
        /\ (Returned(t) /\ last[t].res < 0)
               => ret[t] = last[t].res /\ err[t] = last[t].err
        /\ (InCall(t) /\ last[t].res < 0
              /\ last[t].err # "EINTR"
              /\ ~(cur[t].fn = "safe_sendmsg" /\ last[t].err = "EMSGSIZE"
                     /\ nmsgsize[t] <= MsgErrLimit))
               => pc[t] # "loop"

\* a failed call has returned after logging the failure
C3_Witness ==
    \E t \in Threads :
        /\ Returned(t) /\ cur[t].fn = "safe_send"
        /\ last[t].res < 0 /\ last[t].err = "EBADF" /\ neintr[t] > 0
        /\ out[t] # <<>> /\ ret[t] < 0 /\ err[t] = "EBADF"

\* the text the address rendering is to produce
Rendered(sa) ==
    CASE sa.sa_family = "AF_INET" ->
             inet_ntoa(sa.sin_addr) \o <<":">> \o Dec(ntohs(sa.sin_port))
      [] sa.sa_family = "AF_UNIX" -> <<"u", "n", "i", "x", ":">> \o sa.sun_path
      [] OTHER -> FmtUnknown

\* C4: when sa2str has returned, the buffer holds "<ipv4>:<port>" for an
\* AF_INET address, "unix:<path>" for an AF_UNIX address and the placeholder
\* for every other family.
C4_Rendering ==
    \A t \in Threads : (t \in active /\ pc[t] = "log") => buf = Rendered(cur[t].sa)

\* C5: a safe_connect that failed with EINPROGRESS at verbosity <= 2 has made no
\* log call and still returns the failure; a safe_connect that failed with any
\* other reason has logged one failure line naming that reason.
C5_ConnectInProgress ==
    \A t \in Threads :
        (Returned(t) /\ cur[t].fn = "safe_connect" /\ last[t].res < 0) =>
            /\ ret[t] < 0
            /\ (last[t].err = "EINPROGRESS" /\ cf_verbose <= NoiseLevel)
                   => out[t] = <<>> /\ err[t] = "EINPROGRESS"
            /\ last[t].err # "EINPROGRESS"
                   => /\ Len(out[t]) = 1
                      /\ out[t][1].kind = "fail"
                      /\ out[t][1].fn = "safe_connect"
                      /\ out[t][1].err = last[t].err

\* a safe_connect has returned EINPROGRESS at verbosity <= 2
C5_Witness ==
    \E t \in Threads :
        /\ Returned(t) /\ cur[t].fn = "safe_connect"
        /\ last[t].res < 0 /\ last[t].err = "EINPROGRESS" /\ cf_verbose = NoiseLevel
        /\ ret[t] < 0 /\ out[t] = <<>>

\* C6: a call that ran while another thread ran a call returns what its own
\* syscall returned and has logged the lines it logs when it runs alone: every
\* address in its lines is the rendering of its own address.
C6_Serialisable ==
    \A t \in Threads :
        Returned(t) =>
            /\ ret[t] = last[t].res
            /\ \A i \in DOMAIN out[t] :
                   out[t][i].addr # NoText => out[t][i].addr = sa2str(cur[t].sa, <<>>)

\* C10: a safe_recvmsg that failed (with a reason other than EINTR) has made one
\* log call, at warning level, naming the reason, whatever the verbosity.
C10_RecvmsgWarns ==
    \A t \in Threads :
        (Returned(t) /\ cur[t].fn = "safe_recvmsg" /\ last[t].res < 0) =>
            /\ Len(out[t]) = 1
            /\ out[t][1].level = "warning"
            /\ out[t][1].kind = "fail"
            /\ out[t][1].err = last[t].err

\* a safe_recvmsg failure has been logged at verbosity 0
C10_Witness ==
    \E t \in Threads :
        /\ Returned(t) /\ cur[t].fn = "safe_recvmsg"
        /\ last[t].res < 0 /\ cf_verbose = 0 /\ Len(out[t]) = 1

----
\* Properties of the socket helpers

NonBlocking(snap) == "O_NONBLOCK" \in snap.sflags

CloseOnExec(snap) == "FD_CLOEXEC" \in snap.fdflags

\* the i-th completed call was a successful fn(fd, nb)
Succeeded(i, fn, nb) ==
    /\ i \in DOMAIN hist
    /\ hist[i].fn = fn /\ hist[i].non_block = nb /\ hist[i].ret

\* a successful socket_set_nonblocking(fd, true) directly followed by a
\* successful socket_set_nonblocking(fd, false)
RoundTrip(i) ==
    /\ Succeeded(i, "socket_set_nonblocking", TRUE)
    /\ Succeeded(i + 1, "socket_set_nonblocking", FALSE)

\* C7 as stated: after the two calls the O_NONBLOCK bit has the value it had
\* before them.
C7_RoundTripRestores ==
    \A i \in DOMAIN hist :
        RoundTrip(i) => (NonBlocking(hist[i + 1].after) <=> NonBlocking(hist[i].before))

\* C7 as amended: after the two calls the descriptor is blocking and every
\* other status flag is as it was before them, so the original blocking
\* behaviour is restored exactly when the descriptor was blocking before.
C7_RoundTripBlocking ==
    \A i \in DOMAIN hist :
        RoundTrip(i) =>
            /\ hist[i + 1].after.sflags = hist[i].before.sflags \ {"O_NONBLOCK"}
            /\ hist[i + 1].after.fdflags = hist[i].before.fdflags
            /\ (hist[i + 1].after = hist[i].before) <=> ~NonBlocking(hist[i].before)

\* the round trip was made on a descriptor that was blocking and had another
\* status flag set
C7_Witness ==
    \E i \in DOMAIN hist :
        /\ RoundTrip(i)
        /\ hist[i].before.sflags = {"O_APPEND", "O_RDWR"}
        /\ NonBlocking(hist[i].after)
        /\ hist[i + 1].after = hist[i].before

\* C8: after a successful socket_setup(fd, true) the descriptor is close-on-exec
\* and non-blocking, after a successful socket_setup(fd, false) it is
\* close-on-exec and blocking, whatever its flags were before.
C8_SetupResult ==
    \A i \in DOMAIN hist :
        (hist[i].fn = "socket_setup" /\ hist[i].ret) =>
            /\ CloseOnExec(hist[i].after)
            /\ NonBlocking(hist[i].after) <=> hist[i].non_block

\* socket_setup(fd, true) succeeded on a blocking descriptor without
\* close-on-exec, and socket_setup(fd, false) then succeeded on it
C8_Witness ==
    /\ Len(hist) >= 2
    /\ Succeeded(1, "socket_setup", TRUE)
    /\ ~CloseOnExec(hist[1].before) /\ ~NonBlocking(hist[1].before)
    /\ CloseOnExec(hist[1].after) /\ NonBlocking(hist[1].after)
    /\ Succeeded(2, "socket_setup", FALSE)
    /\ CloseOnExec(hist[2].after) /\ ~NonBlocking(hist[2].after)

\* the steps of socket_setup, in the order of the source
SetupOrder ==
    IF have_nosigpipe THEN <<"F_SETFD", "SO_NOSIGPIPE", "F_GETFL", "F_SETFL">>
    ELSE <<"F_SETFD", "F_GETFL", "F_SETFL">>

\* C9: socket_setup returns false exactly when a step failed, and that step is
\* the last one it attempted; the attempted steps are an initial part of the
\* sequence of steps, each attempted once; when close-on-exec could not be set
\* the status flags were neither read nor written; and when a later step
\* failed, close-on-exec is still set.
C9_SetupFailsFast ==
    \A i \in DOMAIN hist :
        hist[i].fn = "socket_setup" =>
            LET st == hist[i].steps
                n == Len(st)
            IN /\ n >= 1 /\ n <= Len(SetupOrder)
               /\ \A k \in 1 .. n : st[k].op = SetupOrder[k]
               /\ \A k \in 1 .. n - 1 : st[k].ok
               /\ hist[i].ret <=> (st[n].ok /\ n = Len(SetupOrder))
               /\ ~hist[i].ret => ~st[n].ok
               /\ ~st[1].ok => (n = 1 /\ hist[i].after = hist[i].before)
               /\ st[1].ok => CloseOnExec(hist[i].after)

\* socket_setup failed at F_SETFL, after it had set close-on-exec on a
\* descriptor that did not have it
C9_Witness ==
    \E i \in DOMAIN hist :
        /\ hist[i].fn = "socket_setup" /\ ~hist[i].ret
        /\ Len(hist[i].steps) = Len(SetupOrder)
        /\ ~CloseOnExec(hist[i].before) /\ CloseOnExec(hist[i].after)

----
\* Properties of the wrappers' logging

\* the lines of kind k among the log calls of thread t's current call
LinesOf(t, k) == {i \in DOMAIN out[t] : out[t][i].kind = k}

\* thread t's call has returned a failure
ReturnedFailure(t) == Returned(t) /\ last[t].res < 0

\* thread t's call has returned a success
ReturnedSuccess(t) == Returned(t) /\ last[t].res >= 0

\* C11 as stated: a wrapper other than safe_recvmsg that returned a failure has
\* logged a failure line only when cf_verbose > 2; safe_recvmsg has logged one
\* at every verbosity.
C11_FailureLineGated ==
    \A t \in Threads :
        ReturnedFailure(t) =>
            IF cur[t].fn = "safe_recvmsg"
            THEN LinesOf(t, "fail") # {}
            ELSE LinesOf(t, "fail") # {} => cf_verbose > NoiseLevel

\* C11 as amended: the failure line is not gated by the verbosity. A returned
\* failure of safe_recv, safe_send, safe_accept has one noise-level failure line
\* and one of safe_recvmsg one warning-level failure line, at every verbosity;
\* safe_sendmsg has a warning-level failure line for every failed attempt that
\* was not interrupted; safe_connect has one noise-level failure line unless
\* the reason is EINPROGRESS and cf_verbose <= 2; safe_read, safe_write and
\* safe_close have none.
C11_FailureLineUngated ==
    \A t \in Threads :
        ReturnedFailure(t) =>
            LET fails == LinesOf(t, "fail")
                level(l) == \A i \in fails : out[t][i].level = l
            IN CASE cur[t].fn \in {"safe_read", "safe_write", "safe_close"} ->
                        out[t] = <<>>
                 [] cur[t].fn \in {"safe_recv", "safe_send", "safe_accept"} ->
                        Cardinality(fails) = 1 /\ level("noise")
                 [] cur[t].fn = "safe_recvmsg" ->
                        Cardinality(fails) = 1 /\ level("warning")
                 [] cur[t].fn = "safe_sendmsg" ->
                        Cardinality(fails) = nsys[t] - neintr[t] /\ level("warning")
                 [] cur[t].fn = "safe_connect" ->
                        /\ level("noise")
                        /\ Cardinality(fails) =
                               IF last[t].err = "EINPROGRESS" /\ cf_verbose <= NoiseLevel
                               THEN 0 ELSE 1

\* safe_recv has logged a failure at verbosity 0
C11_Witness ==
    \E t \in Threads :
        /\ ReturnedFailure(t) /\ cur[t].fn = "safe_recv" /\ cf_verbose = 0
        /\ Len(out[t]) = 1 /\ out[t][1].kind = "fail" /\ out[t][1].level = "noise"

\* C12 as stated: a success line is logged only when cf_verbose > 2, and a
\* successful call at cf_verbose <= 2 has logged nothing at all.
C12_SuccessSilent ==
    \A t \in Threads :
        ReturnedSuccess(t) =>
            /\ LinesOf(t, "ok") # {} => cf_verbose > NoiseLevel
            /\ cf_verbose <= NoiseLevel => out[t] = <<>>

\* C12 as amended: a success line is logged only when cf_verbose > 2; a
\* successful call at cf_verbose <= 2 has logged nothing, except that
\* safe_sendmsg has logged its two warning lines (the failure and "trying to
\* sleep a bit") for every EMSGSIZE failure it retried before the success.
C12_SuccessLineGated ==
    \A t \in Threads :
        ReturnedSuccess(t) =>
            /\ LinesOf(t, "ok") # {} => cf_verbose > NoiseLevel
            /\ Cardinality(LinesOf(t, "ok")) =
                   IF cf_verbose > NoiseLevel
                      /\ cur[t].fn \notin {"safe_read", "safe_write", "safe_close"}
                   THEN 1 ELSE 0
            /\ cf_verbose <= NoiseLevel =>
                   IF cur[t].fn = "safe_sendmsg"
                   THEN /\ Len(out[t]) = 2 * nmsgsize[t]
                        /\ \A i \in DOMAIN out[t] :
                               /\ out[t][i].level = "warning"
                               /\ out[t][i].kind \in {"fail", "sleep"}
                               /\ out[t][i].kind = "fail" => out[t][i].err = "EMSGSIZE"
                   ELSE out[t] = <<>>

\* safe_sendmsg has succeeded at verbosity <= 2 after one retried EMSGSIZE
\* failure, with the two warning lines of that failure logged
C12_Witness ==
    \E t \in Threads :
        /\ ReturnedSuccess(t) /\ cur[t].fn = "safe_sendmsg" /\ cf_verbose = NoiseLevel
        /\ nmsgsize[t] = 1 /\ Len(out[t]) = 2

\* C13: no step of a wrapper call changes the verbosity level or the module's
\* static storage (sa2str's buffer), and once accept has written the peer's
\* address to the caller's buffer safe_accept leaves that buffer as it is.
C13_NoHiddenState ==
    [][/\ cf_verbose' = cf_verbose
       /\ buf' = buf
       /\ \A t \in Threads :
              (cur[t].fn = "safe_accept" /\ pc[t] \in {"sa2str_1", "sa2str_2", "log"})
                  => cur'[t].sa = cur[t].sa]_vars

----
\* Properties of the retry loops

Min(a, b) == IF a < b THEN a ELSE b

\* C14: in a safe_sendmsg call one sleep has been made for every EMSGSIZE
\* retry and none besides: the sleeps equal the EMSGSIZE retries (the EMSGSIZE
\* failures, at most 20), the invocations in excess of the sleeps are the
\* interrupted ones (and the one being returned), so no sleep precedes an
\* EINTR retry; a call of any other wrapper has not slept.
C14_SleepPerMsgsizeRetry ==
    \A t \in Threads :
        InCall(t) =>
            /\ nsleep[t] = msgerr_count[t]
            /\ nsleep[t] <= MsgErrLimit
            /\ nsys[t] = neintr[t] + nsleep[t] + (IF pc[t] = "loop" THEN 0 ELSE 1)
            /\ cur[t].fn # "safe_sendmsg" => nsleep[t] = 0
            /\ cur[t].fn = "safe_sendmsg" =>
                   /\ nsleep[t] = Min(nmsgsize[t], MsgErrLimit)
                   /\ Cardinality(LinesOf(t, "sleep")) = nsleep[t]

\* a safe_sendmsg call is about to retry after its third sleep, having also
\* been interrupted MaxEintr times
C14_Witness ==
    \E t \in Threads :
        /\ InCall(t) /\ cur[t].fn = "safe_sendmsg" /\ pc[t] = "loop"
        /\ nsleep[t] = 3 /\ neintr[t] = MaxEintr /\ nsys[t] = MaxEintr + 3

\* C15: every wrapper call that has begun returns (the syscall is interrupted
\* finitely often); an interruption is never a reason to return, however many
\* there were; and the attempts of a call that were not interrupted are at most
\* 21 in safe_sendmsg and one in every other wrapper.
C15_Terminates ==
    /\ \A t \in Threads : (t \in active /\ pc[t] \notin {"idle", "done"}) ~> pc[t] = "done"
    /\ [](\A t \in Threads :
              InCall(t) =>
                  /\ Failed(last[t].res, last[t].err, "EINTR") => pc[t] = "loop"
                  /\ nsys[t] - neintr[t] <=
                         IF cur[t].fn = "safe_sendmsg" THEN MsgErrLimit + 1 ELSE 1)

\* safe_sendmsg has returned after 21 attempts that were not interrupted and
\* MaxEintr that were
C15_Witness ==
    \E t \in Threads :
        /\ Returned(t) /\ cur[t].fn = "safe_sendmsg"
        /\ neintr[t] = MaxEintr /\ nsys[t] = MaxEintr + MsgErrLimit + 1

----
\* Further properties of the socket helpers

\* the i-th completed call was a direct call of socket_set_nonblocking
IsSetNonblocking(i) == i \in DOMAIN hist /\ hist[i].fn = "socket_set_nonblocking"

\* C16: socket_set_nonblocking first reads the flags; when the read fails it
\* returns false without attempting the write and the descriptor's flags are
\* unchanged; otherwise it attempts the write once and returns true exactly
\* when the write succeeded.
C16_SetNonblockingResult ==
    \A i \in DOMAIN hist :
        IsSetNonblocking(i) =>
            LET st == hist[i].steps
            IN /\ Len(st) >= 1 /\ st[1].op = "F_GETFL"
               /\ ~st[1].ok => /\ Len(st) = 1
                               /\ ~hist[i].ret
                               /\ hist[i].after = hist[i].before
               /\ st[1].ok => /\ Len(st) = 2 /\ st[2].op = "F_SETFL"
                              /\ hist[i].ret <=> st[2].ok
               /\ hist[i].ret => \A k \in DOMAIN st : st[k].ok

\* one call failed at the read and the next one at the write
C16_Witness ==
    /\ Len(hist) >= 2
    /\ IsSetNonblocking(1) /\ ~hist[1].ret /\ Len(hist[1].steps) = 1
    /\ IsSetNonblocking(2) /\ ~hist[2].ret /\ Len(hist[2].steps) = 2

\* C17: when fn(fd, b) succeeds twice in succession, for fn either
\* socket_set_nonblocking or socket_setup, the descriptor's flags after the
\* second call are those after the first.
C17_Idempotent ==
    \A i \in DOMAIN hist :
        (/\ i + 1 \in DOMAIN hist
         /\ hist[i].ret /\ hist[i + 1].ret
         /\ hist[i + 1].fn = hist[i].fn
         /\ hist[i + 1].non_block = hist[i].non_block)
            => /\ hist[i + 1].after = hist[i].after
               /\ hist[i + 1].before = hist[i].after

\* socket_setup(fd, true) succeeded twice on a descriptor that was blocking and
\* not close-on-exec
C17_Witness ==
    /\ Len(hist) >= 2
    /\ Succeeded(1, "socket_setup", TRUE) /\ Succeeded(2, "socket_setup", TRUE)
    /\ ~NonBlocking(hist[1].before) /\ ~CloseOnExec(hist[1].before)
    /\ hist[2].after = hist[1].after

\* C18: a successful socket_set_nonblocking(fd, b) leaves every status flag
\* other than O_NONBLOCK, and the descriptor flags, as they were at the start
\* of the call, and O_NONBLOCK as b says.
C18_OnlyNonblockChanges ==
    \A i \in DOMAIN hist :
        (IsSetNonblocking(i) /\ hist[i].ret) =>
            /\ hist[i].after.sflags \ {"O_NONBLOCK"} = hist[i].before.sflags \ {"O_NONBLOCK"}
            /\ hist[i].after.fdflags = hist[i].before.fdflags
            /\ NonBlocking(hist[i].after) <=> hist[i].non_block

\* socket_set_nonblocking(fd, false) succeeded on a non-blocking descriptor
\* that had other status flags set
C18_Witness ==
    \E i \in DOMAIN hist :
        /\ Succeeded(i, "socket_set_nonblocking", FALSE)
        /\ hist[i].before.sflags = {"O_NONBLOCK", "O_APPEND", "O_RDWR"}
        /\ hist[i].after.sflags = {"O_APPEND", "O_RDWR"}

----
\* The EMSGSIZE retry counter

\* C19: during a safe_sendmsg call msgerr_count stays within 0..20 and is the
\* number of EMSGSIZE failures seen so far (capped at 20), whatever the number
\* of interruptions; a step of the call never decreases it, increases it by
\* one only when the step's outcome is an EMSGSIZE failure, and leaves it
\* alone when the step's outcome is an interruption.
C19_RetryCounter ==
    /\ [](\A t \in Threads :
              InCall(t) =>
                  /\ msgerr_count[t] \in 0 .. MsgErrLimit
                  /\ cur[t].fn = "safe_sendmsg"
                         => msgerr_count[t] = Min(nmsgsize[t], MsgErrLimit)
                  /\ cur[t].fn # "safe_sendmsg" => msgerr_count[t] = 0)
    /\ [][\A t \in Threads :
              (t \in active /\ pc[t] \notin {"idle", "done"}) =>
                  /\ msgerr_count'[t] >= msgerr_count[t]
                  /\ msgerr_count'[t] # msgerr_count[t]
                         => /\ msgerr_count'[t] = msgerr_count[t] + 1
                            /\ nmsgsize'[t] = nmsgsize[t] + 1
                            /\ neintr'[t] = neintr[t]
                            /\ pc'[t] = "loop"
                  /\ neintr'[t] # neintr[t] => msgerr_count'[t] = msgerr_count[t]]_vars

\* a safe_sendmsg call is about to make its 20th EMSGSIZE retry, after
\* MaxEintr interruptions, the latest of them after the first EMSGSIZE failure
C19_Witness ==
    \E t \in Threads :
        /\ InCall(t) /\ cur[t].fn = "safe_sendmsg" /\ pc[t] = "loop"
        /\ msgerr_count[t] = MsgErrLimit /\ neintr[t] = MaxEintr
        /\ nsys[t] = MsgErrLimit + MaxEintr

====
